---- MODULE Spec2Model ----
(***************************************************************************)
(* Contiguous (directory table, dt.py) and linked (file allocation table,  *)
(* fat.py) block allocators of ftamur/space-allocation-methods.            *)
(*                                                                         *)
(* One behaviour is one allocator instance driven by a sequence of public  *)
(* calls, as experiment.py drives it.  Every public call is one action;    *)
(* the loops inside a call are recursive operators that carry the fields   *)
(* the loop mutates, so that an IndexError raised in the middle of a loop  *)
(* leaves exactly the partial mutation the Python code leaves.             *)
(***************************************************************************)
EXTENDS Integers, Sequences, FiniteSets, TLC

\* ---------------------------------------------------------------- bounds
BlockCount == 5
MaxFileId == 2
MaxLength == 9
MaxArg == 3
MaxPayload == 1
MaxBlockSize == 2
MaxFatEntrySize == 1

\* a larger contiguous instance with three files, for the compaction claims
PackBlockCount == 9
MaxPackFileId == 3
MaxPackLength == 4
MaxPackArg == 2

FileIds == 1..MaxFileId
Lengths == (-1)..MaxLength
BlockArgs == (-1)..MaxArg
Payloads == 1..MaxPayload
DtBlockSizes == 1..MaxBlockSize
FatBlockSizes == {3}
FatEntrySizes == 1..MaxFatEntrySize

VARIABLES
  method_type,     \* "dt" or "fat": which class the run instantiates
  block_count,     \* self.block_count
  block_size,      \* self.block_size
  fat_blocks,      \* FAT.fat_blocks (0 for a DT instance)
  blocks,          \* self.blocks, indexed 0..block_count-1
  dt,              \* DT.dt:  file_id -> [p, s]
  fat,             \* FAT.fat: file_id -> head (the constant 'fat' -> 0 entry is not an integer key)
  capacity,        \* self.capacity
  size,            \* self.size
  call,            \* the last public call: [op, file_id, arg]
  ret,             \* how the last call ended: [st, ty, val]
  compacted        \* number of _compact runs made by the last create_file, extend or
                   \* shrink call (access never compacts and leaves the count alone)

vars == <<method_type, block_count, block_size, fat_blocks, blocks, dt, fat, capacity, size,
          call, ret, compacted>>

\* the indices of self.blocks
Idx == 0..(block_count - 1)

\* ------------------------------------------------------- call outcomes
RetBool(v) == [st |-> "return", ty |-> "bool", val |-> IF v THEN 1 ELSE 0]
RetInt(n) == [st |-> "return", ty |-> "int", val |-> n]
RetNone == [st |-> "return", ty |-> "none", val |-> 0]
IndexError == [st |-> "IndexError", ty |-> "none", val |-> 0]
Hang == [st |-> "hang", ty |-> "none", val |-> 0]

\* An uncaught exception or an endless loop ends the run of experiment.py.
Running == ret.st = "return"

\* --------------------------------------------------- Python list access
InRange(i) == i >= -block_count /\ i < block_count
Pos(i) == IF i < 0 THEN i + block_count ELSE i
At(b, i) == b[Pos(i)]
Put(b, i, v) == [b EXCEPT ![Pos(i)] = v]

\* =====================================================================
\* dt.py
\* =====================================================================

byte_to_block(bytes_count) ==
  IF (bytes_count % block_size) = 0
    THEN bytes_count \div block_size
    ELSE (bytes_count \div block_size) + 1

RECURSIVE first_fit_loop(_, _, _, _)
first_fit_loop(b, file_block_count, i, zeros) ==
  IF i >= block_count THEN -1
  ELSE LET z == IF b[i] = 0 THEN zeros + 1 ELSE 0
       IN IF z = file_block_count
            THEN i + 1 - z
            ELSE first_fit_loop(b, file_block_count, i + 1, z)

\* a first fit that never resets zeros at an occupied block: it counts the
\* free blocks seen so far instead of the current free run
RECURSIVE first_fit_no_reset_loop(_, _, _, _)
first_fit_no_reset_loop(b, file_block_count, i, zeros) ==
  IF i >= block_count THEN -1
  ELSE LET z == IF b[i] = 0 THEN zeros + 1 ELSE zeros
       IN IF z = file_block_count
            THEN i + 1 - z
            ELSE first_fit_no_reset_loop(b, file_block_count, i + 1, z)

first_fit_no_reset(b, file_block_count) ==
  first_fit_no_reset_loop(b, file_block_count, 0, 0)

first_fit(b, file_block_count) == first_fit_loop(b, file_block_count, 0, 0)

RECURSIVE all_empty_loop(_, _, _, _)
all_empty_loop(b, start, length, zeros) ==
  IF length = 0 THEN [ok |-> TRUE, zeros |-> zeros, err |-> FALSE]
  ELSE IF start = block_count THEN [ok |-> FALSE, zeros |-> zeros, err |-> FALSE]
  ELSE IF ~InRange(start) THEN [ok |-> FALSE, zeros |-> zeros, err |-> TRUE]
  ELSE IF At(b, start) # 0 THEN [ok |-> FALSE, zeros |-> zeros, err |-> FALSE]
  ELSE all_empty_loop(b, start + 1, length - 1, zeros + 1)

all_empty(b, start, length) == all_empty_loop(b, start, length, 0)

update_blocks(d, index, offset) ==
  [key \in DOMAIN d |->
     IF d[key].p >= index THEN [d[key] EXCEPT !.p = @ - offset] ELSE d[key]]

\* the inner while of _compact: shift the occupied run that starts at i
\* left by zeros; reading blocks[block_count] raises IndexError.
RECURSIVE move_run(_, _, _)
move_run(b, i, zeros) ==
  IF i >= block_count THEN [blocks |-> b, i |-> i, err |-> TRUE]
  ELSE IF b[i] = 0 THEN [blocks |-> b, i |-> i, err |-> FALSE]
  ELSE move_run([b EXCEPT ![i - zeros] = b[i], ![i] = 0], i + 1, zeros)

\* the for loop of _compact.  k is the next value the range hands out (the
\* assignments to i inside the body do not change it), last is the value i
\* holds after the previous iteration.
RECURSIVE compact_loop(_, _, _, _, _)
compact_loop(b, d, k, zeros, last) ==
  IF k >= block_count
    THEN [blocks |-> b, dt |-> d, val |-> block_count - last, err |-> FALSE]
  ELSE IF b[k] = 0 THEN compact_loop(b, d, k + 1, zeros + 1, k)
  ELSE IF zeros = 0 THEN compact_loop(b, d, k + 1, 0, k)
  ELSE LET d2 == update_blocks(d, k, zeros)
           m == move_run(b, k, zeros)
       IN IF m.err
            THEN [blocks |-> m.blocks, dt |-> d2, val |-> 0, err |-> TRUE]
            ELSE compact_loop(m.blocks, d2, k + 1, 0, m.i - zeros)

compact(b, d) == compact_loop(b, d, 0, 0, 0)

RECURSIVE defragment_scan(_, _, _)
defragment_scan(b, j, nonzero) ==
  IF j >= block_count THEN [j |-> j, nonzero |-> nonzero, err |-> TRUE]
  ELSE IF b[j] = 0 THEN [j |-> j, nonzero |-> nonzero, err |-> FALSE]
  ELSE defragment_scan(b, j + 1, nonzero + 1)

RECURSIVE defragment_move(_, _, _, _)
defragment_move(b, i, end, j) ==
  IF i >= end THEN [blocks |-> b, err |-> FALSE]
  ELSE IF j + 1 >= block_count \/ i >= block_count THEN [blocks |-> b, err |-> TRUE]
  ELSE defragment_move([b EXCEPT ![j + 1] = b[i], ![i] = 0], i + 1, end, j + 1)

defragment(b, d, file_id) ==
  LET start == d[file_id].p
      end == start + byte_to_block(d[file_id].s)
  IN IF start >= block_count THEN [blocks |-> b, dt |-> d, err |-> TRUE]
     ELSE LET sc == defragment_scan(b, start + 1, byte_to_block(d[file_id].s) - 1)
          IN IF sc.err THEN [blocks |-> b, dt |-> d, err |-> TRUE]
             ELSE LET b1 == [b EXCEPT ![sc.j] = b[start], ![start] = 0]
                      mv == defragment_move(b1, start + 1, end, sc.j)
                  IN IF mv.err THEN [blocks |-> mv.blocks, dt |-> d, err |-> TRUE]
                     ELSE [blocks |-> mv.blocks,
                           dt |-> [d EXCEPT ![file_id].p = @ + sc.nonzero],
                           err |-> FALSE]

\* "while start == -1: compact; first_fit" of create_file.  _compact and
\* _first_fit are functions of (blocks, dt) alone, so a pass that changes
\* neither repeats forever.
RECURSIVE create_retry(_, _, _, _)
create_retry(b, d, file_block_count, n) ==
  LET start == first_fit(b, file_block_count)
  IN IF start # -1
       THEN [blocks |-> b, dt |-> d, start |-> start, st |-> "ok", compacted |-> n]
       ELSE LET c == compact(b, d)
            IN IF c.err
                 THEN [blocks |-> c.blocks, dt |-> c.dt, start |-> -1,
                       st |-> "IndexError", compacted |-> n + 1]
               ELSE IF c.blocks = b /\ c.dt = d
                 THEN [blocks |-> b, dt |-> d, start |-> -1,
                       st |-> "hang", compacted |-> n + 1]
               ELSE create_retry(c.blocks, c.dt, file_block_count, n + 1)

\* write fill[0..n-1] into blocks[from..from+n-1]; a write at block_count raises
fill_blocks(b, from, n, fill) ==
  [i \in Idx |-> IF i >= from /\ i < from + n THEN fill[i - from] ELSE b[i]]

Outcome(b, d, c, s, r, n) ==
  [blocks |-> b, dt |-> d, capacity |-> c, size |-> s, ret |-> r, compacted |-> n]

DT_Reject == Outcome(blocks, dt, capacity, size, RetBool(FALSE), 0)

\* a create_file guard that lets a zero length through (the FAT variant of
\* the length check)
DT_create_rejects_zero_ok(file_id, file_length) ==
  \/ file_id \in DOMAIN dt
  \/ file_length < 0
  \/ capacity < byte_to_block(file_length)

\* the three early returns of create_file, in the order the code tests them
DT_create_rejects(file_id, file_length) ==
  \/ file_id \in DOMAIN dt
  \/ file_length < 1
  \/ capacity < byte_to_block(file_length)

\* number of blocks create_file fills with random payloads (0 when it rejects)
DT_create_fill(file_id, file_length) ==
  IF DT_create_rejects(file_id, file_length) THEN 0 ELSE byte_to_block(file_length)

DT_create_file_result(file_id, file_length, fill) ==
  IF DT_create_rejects(file_id, file_length) THEN DT_Reject
  ELSE LET file_block_count == byte_to_block(file_length)
           r == create_retry(blocks, dt, file_block_count, 0)
       IN IF r.st = "IndexError"
            THEN Outcome(r.blocks, r.dt, capacity, size, IndexError, r.compacted)
          ELSE IF r.st = "hang"
            THEN Outcome(r.blocks, r.dt, capacity, size, Hang, r.compacted)
          ELSE Outcome(fill_blocks(r.blocks, r.start, file_block_count, fill),
                       (file_id :> [p |-> r.start, s |-> file_length]) @@ r.dt,
                       capacity - file_block_count, size + file_block_count,
                       RetBool(TRUE), r.compacted)

\* an access without the test against the recorded length (the FAT variant)
DT_access_result_no_length_test(file_id, byte_offset) ==
  IF file_id \notin DOMAIN dt THEN RetBool(FALSE)
  ELSE IF byte_offset < 1 THEN RetBool(FALSE)
  ELSE RetInt(dt[file_id].p + byte_to_block(byte_offset) - 1)

DT_access_result(file_id, byte_offset) ==
  IF file_id \notin DOMAIN dt THEN RetBool(FALSE)
  ELSE IF byte_offset < 1 THEN RetBool(FALSE)
  ELSE IF byte_offset > dt[file_id].s THEN RetBool(FALSE)
  ELSE RetInt(dt[file_id].p + byte_to_block(byte_offset) - 1)

DT_extend_fill(file_id, extension) ==
  IF file_id \notin DOMAIN dt \/ extension < 1 \/ capacity < extension THEN 0
  ELSE extension

\* lines 151-159 of extend: fill, overwrite the recorded size, account
DT_extend_finish(b, d, n, file_id, extension, end_point, fill) ==
  IF end_point + extension > block_count
    THEN Outcome(fill_blocks(b, end_point, extension, fill), d, capacity, size,
                 IndexError, n)
    ELSE Outcome(fill_blocks(b, end_point, extension, fill),
                 [d EXCEPT ![file_id].s = extension * block_size],
                 capacity - extension, size + extension, RetBool(TRUE), n)

DT_extend_result(file_id, extension, fill) ==
  IF file_id \notin DOMAIN dt THEN DT_Reject
  ELSE IF extension < 1 THEN DT_Reject
  ELSE IF capacity < extension THEN DT_Reject
  ELSE LET file_block_size == byte_to_block(dt[file_id].s)
           end_point == dt[file_id].p + file_block_size
           ae == all_empty(blocks, end_point, extension)
       IN IF ae.err THEN Outcome(blocks, dt, capacity, size, IndexError, 0)
          ELSE IF ae.ok
            THEN DT_extend_finish(blocks, dt, 0, file_id, extension, end_point, fill)
          ELSE LET c == compact(blocks, dt)
               IN IF c.err
                    THEN Outcome(c.blocks, c.dt, capacity, size, IndexError, 1)
                  ELSE IF c.val > file_block_size
                    THEN LET g == defragment(c.blocks, c.dt, file_id)
                         IN IF g.err
                              THEN Outcome(g.blocks, g.dt, capacity, size, IndexError, 1)
                              ELSE DT_extend_finish(g.blocks, g.dt, 1, file_id, extension,
                                                    g.dt[file_id].p + file_block_size, fill)
                  ELSE Outcome(c.blocks, c.dt, capacity, size, RetBool(FALSE), 1)

DT_shrink_result(file_id, shrinking) ==
  IF file_id \notin DOMAIN dt THEN DT_Reject
  ELSE IF shrinking < 1 THEN DT_Reject
  ELSE LET file_length == dt[file_id].s
           file_block_size == byte_to_block(file_length)
           end_point == dt[file_id].p + file_block_size - 1
       IN IF file_block_size - shrinking <= 1 THEN DT_Reject
          ELSE IF end_point >= block_count
            THEN Outcome(blocks, dt, capacity, size, IndexError, 0)
          ELSE Outcome([i \in Idx |-> IF i <= end_point /\ i > end_point - shrinking
                                        THEN 0 ELSE blocks[i]],
                       [dt EXCEPT ![file_id].s =
                          IF (file_length % block_size) = 0
                            THEN @ - (shrinking * block_size)
                            ELSE @ - ((shrinking * (block_size - 1))
                                      + (file_length % block_size))],
                       capacity + shrinking, size - shrinking, RetBool(TRUE), 0)

\* =====================================================================
\* fat.py
\* =====================================================================
\* Every value FAT writes into blocks is -1, 0 or an index of the array, so
\* a read blocks[v] never raises: blocks[-1] is Python's last element.

FAT_byte_to_block(bytes_count) ==
  IF (bytes_count % block_size) = 0
    THEN bytes_count \div block_size
    ELSE (bytes_count \div block_size) + 1

RECURSIVE allocate_fat_loop(_, _, _, _)
allocate_fat_loop(b, end_index, i, n) ==
  IF i >= block_count
    THEN IF n = 1 THEN Put(b, end_index, -1) ELSE b
  ELSE IF b[i] = 0
    THEN IF n = 1
           THEN Put(b, end_index, -1)
           ELSE allocate_fat_loop(Put(b, end_index, i), i, i + 1, n - 1)
  ELSE allocate_fat_loop(b, end_index, i + 1, n)

\* an allocation without the "if blocks == 1" after the loop: a chain whose
\* last block is the last Free block of the list gets no terminator
RECURSIVE allocate_fat_no_final_loop(_, _, _, _)
allocate_fat_no_final_loop(b, end_index, i, n) ==
  IF i >= block_count THEN b
  ELSE IF b[i] = 0
    THEN IF n = 1
           THEN Put(b, end_index, -1)
           ELSE allocate_fat_no_final_loop(Put(b, end_index, i), i, i + 1, n - 1)
  ELSE allocate_fat_no_final_loop(b, end_index, i + 1, n)

allocate_fat_no_final(b, end_index, search_starts, n) ==
  allocate_fat_no_final_loop(b, end_index, search_starts, n)

allocate_fat(b, end_index, search_starts, n) ==
  allocate_fat_loop(b, end_index, search_starts, n)

\* "while end != -1" of _find_size.  The walk reads only; it visits indices
\* of the array, so a walk longer than block_count has repeated one and
\* never ends: size -1 stands for that.
RECURSIVE find_size_loop(_, _, _)
find_size_loop(b, end, file_size) ==
  IF end = -1 THEN file_size
  ELSE IF file_size > block_count THEN -1
  ELSE find_size_loop(b, At(b, end), file_size + 1)

find_size(b, f, file_id) == find_size_loop(b, f[file_id], 0)

\* the first for loop of create_file: the first free block at or after fat_blocks
RECURSIVE first_free(_, _)
first_free(b, i) ==
  IF i >= block_count THEN -1
  ELSE IF b[i] = 0 THEN i
  ELSE first_free(b, i + 1)

\* "while True" of extend: walk to the block that holds the terminator;
\* -2 stands for a walk that never ends (see find_size_loop).
RECURSIVE extend_walk(_, _, _)
extend_walk(b, end, steps) ==
  IF At(b, end) = -1 THEN end
  ELSE IF steps > block_count THEN -2
  ELSE extend_walk(b, At(b, end), steps + 1)

\* "while True" of shrink; keep = file_size - shrinking.  Past the new last
\* block every pass writes 0 into the block it leaves, so the only pass that
\* repeats forever is the one standing on block 0 while it holds 0.
\* the blocks of a file's chain in walk order: the head, then the block each
\* Next value names, up to the block that holds the terminator; the walk is
\* cut where it comes back to a block it has seen (a cycle)
RECURSIVE chain_from(_, _, _)
chain_from(b, end, seen) ==
  IF end = -1 \/ \E j \in 1..Len(seen) : seen[j] = Pos(end) THEN seen
  ELSE chain_from(b, At(b, end), Append(seen, Pos(end)))

\* a shrink loop that plants the terminator and frees only the first block
\* behind the new last block: it stops there instead of at the old terminator
shrink_loop_frees_one(b, end, delete_starts, keep) ==
  LET c == chain_from(b, end, <<>>)
  IN IF keep < Len(c)
       THEN [blocks |-> Put(Put(b, c[keep], -1), c[keep + 1], 0), hang |-> FALSE]
       ELSE [blocks |-> b, hang |-> FALSE]

RECURSIVE shrink_loop(_, _, _, _)
shrink_loop(b, end, delete_starts, keep) ==
  IF delete_starts >= keep /\ end = 0 /\ b[0] = 0
    THEN [blocks |-> b, hang |-> TRUE]
  ELSE IF delete_starts + 1 >= keep
    THEN LET delete == end
             end2 == At(b, end)
             b2 == Put(b, delete, IF delete_starts + 1 = keep THEN -1 ELSE 0)
         IN IF At(b2, end2) = -1
              THEN [blocks |-> Put(b2, end2, 0), hang |-> FALSE]
              ELSE shrink_loop(b2, end2, delete_starts + 1, keep)
  ELSE shrink_loop(b, At(b, end), delete_starts + 1, keep)

FatOutcome(b, f, c, s, r) ==
  [blocks |-> b, fat |-> f, capacity |-> c, size |-> s, ret |-> r]

FAT_Reject == FatOutcome(blocks, fat, capacity, size, RetBool(FALSE))

FAT_create_file_result(file_id, file_length) ==
  IF file_id \in DOMAIN fat THEN FAT_Reject
  ELSE IF file_length < 0 THEN FAT_Reject
  ELSE LET file_block_count == FAT_byte_to_block(file_length)
           i == first_free(blocks, fat_blocks)
       IN IF capacity < file_block_count THEN FAT_Reject
          ELSE IF i = -1
            THEN FatOutcome(blocks, fat, capacity - file_block_count,
                            size + file_block_count, RetBool(TRUE))
          ELSE FatOutcome(allocate_fat(blocks, i, i + 1, file_block_count),
                          (file_id :> i) @@ fat,
                          capacity - file_block_count, size + file_block_count,
                          RetBool(TRUE))

RECURSIVE access_walk(_, _, _)
access_walk(b, start, hops) ==
  IF hops <= 0 THEN start ELSE access_walk(b, At(b, start), hops - 1)

\* an access that makes bytesToBlocks(byte_offset) hops, one too many
FAT_access_file_result_extra_hop(file_id, byte_offset) ==
  IF file_id \notin DOMAIN fat THEN RetBool(FALSE)
  ELSE IF byte_offset < 0 THEN RetBool(FALSE)
  ELSE RetInt(access_walk(blocks, fat[file_id], FAT_byte_to_block(byte_offset)))

FAT_access_file_result(file_id, byte_offset) ==
  IF file_id \notin DOMAIN fat THEN RetBool(FALSE)
  ELSE IF byte_offset < 0 THEN RetBool(FALSE)
  ELSE RetInt(access_walk(blocks, fat[file_id], FAT_byte_to_block(byte_offset) - 1))

\* an extend that hands _allocate_fat the count extension instead of
\* extension + 1: the chain grows by one block less than is charged
FAT_extend_result_one_short(file_id, extension) ==
  IF file_id \notin DOMAIN fat THEN FAT_Reject
  ELSE IF extension < 0 THEN FAT_Reject
  ELSE IF capacity < extension THEN FAT_Reject
  ELSE LET end == extend_walk(blocks, fat[file_id], 0)
       IN IF end = -2 THEN FatOutcome(blocks, fat, capacity, size, Hang)
          ELSE FatOutcome(allocate_fat(blocks, end, fat_blocks, extension), fat,
                          capacity - extension, size + extension, RetBool(TRUE))

FAT_extend_result(file_id, extension) ==
  IF file_id \notin DOMAIN fat THEN FAT_Reject
  ELSE IF extension < 0 THEN FAT_Reject
  ELSE IF capacity < extension THEN FAT_Reject
  ELSE LET end == extend_walk(blocks, fat[file_id], 0)
       IN IF end = -2 THEN FatOutcome(blocks, fat, capacity, size, Hang)
          ELSE FatOutcome(allocate_fat(blocks, end, fat_blocks, extension + 1), fat,
                          capacity - extension, size + extension, RetBool(TRUE))

FAT_shrink_result(file_id, shrinking) ==
  IF file_id \notin DOMAIN fat THEN FAT_Reject
  ELSE IF shrinking < 0 THEN FAT_Reject
  ELSE LET file_size == find_size(blocks, fat, file_id)
       IN IF file_size = -1 THEN FatOutcome(blocks, fat, capacity, size, Hang)
          ELSE IF file_size - shrinking < 1 THEN FAT_Reject
          ELSE LET r == shrink_loop(blocks, fat[file_id], 0, file_size - shrinking)
               IN IF r.hang THEN FatOutcome(r.blocks, fat, capacity, size, Hang)
                  ELSE FatOutcome(r.blocks, fat, capacity + shrinking,
                                  size - shrinking, RetNone)

\* ------------------------------------------------------------- actions
Apply(o) ==
  /\ blocks' = o.blocks
  /\ dt' = o.dt
  /\ capacity' = o.capacity
  /\ size' = o.size
  /\ ret' = o.ret
  /\ compacted' = o.compacted
  /\ UNCHANGED <<method_type, block_count, block_size, fat_blocks, fat>>

DT_create_file(file_id, file_length) ==
  /\ method_type = "dt"
  /\ Running
  /\ call' = [op |-> "create_file", file_id |-> file_id, arg |-> file_length]
  /\ \E fill \in [0..(DT_create_fill(file_id, file_length) - 1) -> Payloads] :
       Apply(DT_create_file_result(file_id, file_length, fill))

DT_access(file_id, byte_offset) ==
  /\ method_type = "dt"
  /\ Running
  /\ call' = [op |-> "access", file_id |-> file_id, arg |-> byte_offset]
  /\ ret' = DT_access_result(file_id, byte_offset)
  /\ UNCHANGED <<method_type, block_count, block_size, fat_blocks, blocks, dt, fat, capacity, size,
                 compacted>>

DT_extend(file_id, extension) ==
  /\ method_type = "dt"
  /\ Running
  /\ call' = [op |-> "extend", file_id |-> file_id, arg |-> extension]
  /\ \E fill \in [0..(DT_extend_fill(file_id, extension) - 1) -> Payloads] :
       Apply(DT_extend_result(file_id, extension, fill))

DT_shrink(file_id, shrinking) ==
  /\ method_type = "dt"
  /\ Running
  /\ call' = [op |-> "shrink", file_id |-> file_id, arg |-> shrinking]
  /\ Apply(DT_shrink_result(file_id, shrinking))

ApplyFat(o) ==
  /\ blocks' = o.blocks
  /\ fat' = o.fat
  /\ capacity' = o.capacity
  /\ size' = o.size
  /\ ret' = o.ret
  /\ compacted' = 0
  /\ UNCHANGED <<method_type, block_count, block_size, fat_blocks, dt>>

FAT_create_file(file_id, file_length) ==
  /\ method_type = "fat"
  /\ Running
  /\ call' = [op |-> "create_file", file_id |-> file_id, arg |-> file_length]
  /\ ApplyFat(FAT_create_file_result(file_id, file_length))

FAT_access_file(file_id, byte_offset) ==
  /\ method_type = "fat"
  /\ Running
  /\ call' = [op |-> "access_file", file_id |-> file_id, arg |-> byte_offset]
  /\ ret' = FAT_access_file_result(file_id, byte_offset)
  /\ compacted' = 0
  /\ UNCHANGED <<method_type, block_count, block_size, fat_blocks, blocks, dt, fat, capacity, size>>

FAT_extend(file_id, extension) ==
  /\ method_type = "fat"
  /\ Running
  /\ call' = [op |-> "extend", file_id |-> file_id, arg |-> extension]
  /\ ApplyFat(FAT_extend_result(file_id, extension))

FAT_shrink(file_id, shrinking) ==
  /\ method_type = "fat"
  /\ Running
  /\ call' = [op |-> "shrink", file_id |-> file_id, arg |-> shrinking]
  /\ ApplyFat(FAT_shrink_result(file_id, shrinking))

FAT_init ==
  /\ method_type = "fat"
  /\ block_size \in FatBlockSizes
  /\ \E fat_entry_size \in FatEntrySizes :
       fat_blocks = FAT_byte_to_block(fat_entry_size * block_count)
  /\ fat_blocks \in 1..block_count
  /\ blocks = [i \in Idx |-> IF i < fat_blocks - 1 THEN i + 1
                             ELSE IF i = fat_blocks - 1 THEN -1 ELSE 0]
  /\ dt = <<>>
  /\ fat = <<>>
  /\ capacity = block_count - fat_blocks
  /\ size = 0

DT_init ==
  /\ method_type = "dt"
  /\ block_size \in DtBlockSizes
  /\ fat_blocks = 0
  /\ blocks = [i \in Idx |-> 0]
  /\ dt = <<>>
  /\ fat = <<>>
  /\ capacity = block_count
  /\ size = 0

Init ==
  /\ block_count = BlockCount
  /\ (DT_init \/ FAT_init)
  /\ call = [op |-> "__init__", file_id |-> 0, arg |-> 0]
  /\ ret = RetNone
  /\ compacted = 0

Next ==
  \/ \E f \in FileIds, n \in Lengths : DT_create_file(f, n)
  \/ \E f \in FileIds, n \in Lengths : DT_access(f, n)
  \/ \E f \in FileIds, n \in BlockArgs : DT_extend(f, n)
  \/ \E f \in FileIds, n \in BlockArgs : DT_shrink(f, n)
  \/ \E f \in FileIds, n \in Lengths : FAT_create_file(f, n)
  \/ \E f \in FileIds, n \in Lengths : FAT_access_file(f, n)
  \/ \E f \in FileIds, n \in BlockArgs : FAT_extend(f, n)
  \/ \E f \in FileIds, n \in BlockArgs : FAT_shrink(f, n)

Spec == Init /\ [][Next]_vars

\* DT(block_size, PackBlockCount) driven by create_file, extend and shrink
PackFileIds == 1..MaxPackFileId
PackLengths == 1..MaxPackLength
PackArgs == 1..MaxPackArg

InitPack ==
  /\ block_count = PackBlockCount
  /\ DT_init
  /\ call = [op |-> "__init__", file_id |-> 0, arg |-> 0]
  /\ ret = RetNone
  /\ compacted = 0

NextPack ==
  \/ \E f \in PackFileIds, n \in PackLengths : DT_create_file(f, n)
  \/ \E f \in PackFileIds, n \in PackArgs : DT_extend(f, n)
  \/ \E f \in PackFileIds, n \in PackArgs : DT_shrink(f, n)

SpecPack == InitPack /\ [][NextPack]_vars

\* =====================================================================
\* Properties
\* =====================================================================
Min(S) == CHOOSE x \in S : \A y \in S : x <= y

IsDT == method_type = "dt"
IsFAT == method_type = "fat"
Rejected(r) == r = RetBool(FALSE)
Succeeded(r) == r = RetBool(TRUE)

\* blocks_used(file) of the contiguous allocator: ceil(length / block_size)
blocks_used(d, f) == byte_to_block(d[f].s)

RECURSIVE dt_blocks_sum(_, _)
dt_blocks_sum(d, S) ==
  IF S = {} THEN 0
  ELSE LET f == CHOOSE x \in S : TRUE
       IN blocks_used(d, f) + dt_blocks_sum(d, S \ {f})

\* chain_length(file) of the linked allocator; -1 when the walk never ends
chain_length(f) == find_size(blocks, fat, f)

RECURSIVE fat_blocks_sum(_)
fat_blocks_sum(S) ==
  IF S = {} THEN 0
  ELSE LET f == CHOOSE x \in S : TRUE
       IN chain_length(f) + fat_blocks_sum(S \ {f})

\* the recorded extent of a file, and "every record matches the physical
\* layout": extents are inside the array, occupied, pairwise disjoint, and
\* cover every occupied block.
Extent(d, f) == d[f].p .. (d[f].p + blocks_used(d, f) - 1)

RecordsMatch ==
  /\ \A f \in DOMAIN dt : Extent(dt, f) \subseteq Idx
  /\ \A f \in DOMAIN dt : \A i \in Extent(dt, f) : blocks[i] # 0
  /\ \A f, g \in DOMAIN dt : f # g => Extent(dt, f) \cap Extent(dt, g) = {}
  /\ \A i \in Idx : blocks[i] # 0 => \E f \in DOMAIN dt : i \in Extent(dt, f)

\* C1: contiguous allocator, after any sequence of returned calls:
\* capacity + sum over the file records of bytesToBlocks(record.length)
\* equals block_count.
C1_DtAccounting ==
  (IsDT /\ Running) => capacity + dt_blocks_sum(dt, DOMAIN dt) = block_count

\* C2: linked allocator, after any sequence of returned calls with any
\* accepted arguments: every chain walk ends, and capacity + sum over the
\* files of chain_length + reserved_table_blocks equals block_count.
C2_FatAccounting ==
  (IsFAT /\ Running) =>
     /\ \A f \in DOMAIN fat : chain_length(f) # -1
     /\ capacity + fat_blocks_sum(DOMAIN fat) + fat_blocks = block_count

\* C3: every public call of either allocator ends by returning a value:
\* no call ends in an uncaught IndexError or runs forever.
C3_AlwaysReturns == ret.st = "return"

\* C4: contiguous create_file with a new file_id, length_bytes >= 1 and
\* capacity >= bytesToBlocks(length_bytes) terminates and returns true.
C4_CreateTerminates ==
  [][(IsDT /\ call'.op = "create_file"
        /\ call'.file_id \notin DOMAIN dt
        /\ call'.arg >= 1
        /\ capacity >= byte_to_block(call'.arg))
      => Succeeded(ret')]_vars

\* C5: contiguous create_file returns false exactly when file_id already
\* has a record, or length_bytes < 1, or capacity < bytesToBlocks(length);
\* a call that returns false leaves blocks, records and capacity unchanged.
C5_CreateRejects ==
  [][(IsDT /\ call'.op = "create_file") =>
       LET f == call'.file_id
           n == call'.arg
           bad == f \in DOMAIN dt \/ n < 1 \/ capacity < byte_to_block(n)
       IN /\ Rejected(ret') <=> bad
          /\ Rejected(ret') => blocks' = blocks /\ dt' = dt /\ capacity' = capacity]_vars

\* C5 witness: a create_file of a new file with a positive length was
\* rejected for lack of capacity.
C5_Witness ==
  /\ IsDT /\ call.op = "create_file" /\ Rejected(ret)
  /\ call.file_id \notin DOMAIN dt /\ call.arg >= 1
  /\ capacity < byte_to_block(call.arg)
  /\ capacity < block_count

\* C6: a contiguous create_file that succeeds without compaction places the
\* file at the lowest index s with blocks s..s+need-1 all Free, marks exactly
\* those blocks Occupied, inserts {start: s, length: length_bytes}, decreases
\* capacity by need, and changes no other block and no other record.
C6_FirstFit ==
  [][(IsDT /\ call'.op = "create_file" /\ Succeeded(ret') /\ compacted' = 0) =>
       LET f == call'.file_id
           need == byte_to_block(call'.arg)
           runs == {s \in Idx : /\ s + need <= block_count
                                /\ \A j \in s..(s + need - 1) : blocks[j] = 0}
       IN /\ runs # {}
          /\ LET s == Min(runs)
             IN /\ dt' = (f :> [p |-> s, s |-> call'.arg]) @@ dt
                /\ \A i \in Idx :
                     IF i \in s..(s + need - 1)
                       THEN blocks[i] = 0 /\ blocks'[i] # 0
                       ELSE blocks'[i] = blocks[i]
                /\ capacity' = capacity - need]_vars

\* C6 witness: a create_file succeeded without compaction and first fit put
\* the file into a hole, below a block that is still Occupied.
C6_Witness ==
  /\ IsDT /\ call.op = "create_file" /\ Succeeded(ret) /\ compacted = 0
  /\ call.file_id \in DOMAIN dt
  /\ dt[call.file_id].p > 0
  /\ \E i \in Idx : i >= dt[call.file_id].p + blocks_used(dt, call.file_id)
                    /\ blocks[i] # 0

\* C7: contiguous extend fails only if file_id is unknown, extra_blocks < 1
\* or capacity < extra_blocks; in every other case it returns true.
C7_ExtendSucceeds ==
  [][(IsDT /\ call'.op = "extend"
        /\ call'.file_id \in DOMAIN dt
        /\ call'.arg >= 1
        /\ capacity >= call'.arg)
      => Succeeded(ret')]_vars

\* C8: after a successful contiguous extend, record.length is its previous
\* value plus extra_blocks * block_size, the newly Occupied blocks are the
\* extra_blocks blocks directly after the file's previous last block, and
\* capacity decreased by extra_blocks.
C8_ExtendEffect ==
  [][(IsDT /\ call'.op = "extend" /\ Succeeded(ret')) =>
       LET f == call'.file_id
           n == call'.arg
           end == dt[f].p + blocks_used(dt, f)
       IN /\ dt'[f].s = dt[f].s + (n * block_size)
          /\ blocks_used(dt', f) = blocks_used(dt, f) + n
          /\ \A i \in Idx : (blocks[i] = 0 /\ blocks'[i] # 0) <=> i \in end..(end + n - 1)
          /\ capacity' = capacity - n]_vars

\* C9: after a successful contiguous shrink on a state whose records match
\* the physical layout, bytesToBlocks(record.length) decreased by exactly
\* shrink_blocks, the shrink_blocks highest blocks of the extent are Free and
\* no other block changed, record.start is unchanged, and capacity increased
\* by shrink_blocks.
C9_ShrinkEffect ==
  [][(IsDT /\ call'.op = "shrink" /\ Succeeded(ret') /\ RecordsMatch) =>
       LET f == call'.file_id
           n == call'.arg
           last == dt[f].p + blocks_used(dt, f) - 1
       IN /\ blocks_used(dt', f) = blocks_used(dt, f) - n
          /\ blocks' = [i \in Idx |-> IF i \in (last - n + 1)..last THEN 0 ELSE blocks[i]]
          /\ dt'[f].p = dt[f].p
          /\ capacity' = capacity + n]_vars

\* C10: on both allocators, shrink of an existing file by shrink_blocks >= 1
\* is rejected when fewer than one block would remain and accepted when at
\* least one block would remain.
C10_ShrinkFloor ==
  [][(call'.op = "shrink" /\ call'.arg >= 1
        /\ call'.file_id \in (IF IsDT THEN DOMAIN dt ELSE DOMAIN fat)
        /\ (IsFAT => chain_length(call'.file_id) # -1)) =>
       LET used == IF IsDT THEN blocks_used(dt, call'.file_id)
                           ELSE chain_length(call'.file_id)
       IN Rejected(ret') <=> (used - call'.arg < 1)]_vars

C12_OffsetOutOfRange ==
  [][/\ (IsDT /\ call'.op = "access" /\ call'.file_id \in DOMAIN dt
            /\ call'.arg > dt[call'.file_id].s)
         => Rejected(ret')
     /\ (IsFAT /\ call'.op = "access_file" /\ call'.file_id \in DOMAIN fat
            /\ chain_length(call'.file_id) # -1
            /\ FAT_byte_to_block(call'.arg) > chain_length(call'.file_id))
         => Rejected(ret')]_vars

\* a call that returned and was not turned down with the failure value
Accepted(r) == r.st = "return" /\ ~Rejected(r)

\* the round trip on the contiguous allocator: the step is an accepted
\* shrink(f, k), and extend(f, k) is then run on the state it leaves
C13_DtRoundTrip ==
  \A f \in FileIds, k \in 1..MaxArg :
    (IsDT /\ call' = [op |-> "shrink", file_id |-> f, arg |-> k] /\ Accepted(ret')) =>
      \A fill \in [0..(k - 1) -> Payloads] :
        LET o == (DT_extend_result(f, k, fill))'
        IN /\ o.capacity = capacity
           /\ byte_to_block(o.dt[f].s) = blocks_used(dt, f)

\* the same round trip on the linked allocator
C13_FatRoundTrip ==
  \A f \in FileIds, k \in 1..MaxArg :
    (IsFAT /\ call' = [op |-> "shrink", file_id |-> f, arg |-> k] /\ Accepted(ret')) =>
      LET o == (FAT_extend_result(f, k))'
      IN /\ o.capacity = capacity
         /\ find_size(o.blocks, o.fat, f) = chain_length(f)

\* C13: round trip on either allocator: for an existing file f and k >= 1
\* such that shrink(f, k) is accepted, shrink(f, k) followed by extend(f, k)
\* leaves capacity and the file's occupied block count
\* (bytesToBlocks(record.length), chain_length(f)) at their pre-shrink values.
C13_RoundTrip == [][C13_DtRoundTrip /\ C13_FatRoundTrip]_vars

\* C14: linked shrink returns a boolean that tells the outcome: true when
\* the shrink is performed (file known, shrink_blocks >= 0, chain_length -
\* shrink_blocks >= 1) and false when it is rejected.
C14_FatShrinkReturns ==
  [][(IsFAT /\ call'.op = "shrink") =>
       LET f == call'.file_id
           k == call'.arg
       IN IF f \notin DOMAIN fat \/ k < 0 THEN Rejected(ret')
          ELSE chain_length(f) # -1 =>
                 IF chain_length(f) - k >= 1 THEN Succeeded(ret') ELSE Rejected(ret')]_vars

Chain(b, fa, f) == chain_from(b, fa[f], <<>>)
ChainSet(b, fa, f) == {Chain(b, fa, f)[j] : j \in 1..Len(Chain(b, fa, f))}

Reserved == 0..(fat_blocks - 1)

\* C15: linked allocator, after any sequence of public calls: the reserved
\* leading blocks still hold the values written at construction (a chain
\* 0 -> 1 -> ... ending in the terminator), and no file's head or chain
\* contains a reserved index.
C15_ReservedIntact ==
  IsFAT =>
    /\ \A i \in Reserved : blocks[i] = (IF i = fat_blocks - 1 THEN -1 ELSE i + 1)
    /\ \A f \in DOMAIN fat : ChainSet(blocks, fat, f) \cap Reserved = {}

\* self.fat holds the table's own chain ('fat' -> 0) beside the files'
\* chains.  All chains are well formed: every walk, the table's included,
\* goes through pairwise distinct blocks and ends at a block holding the
\* terminator, no block is in two chains, and a block behind the reserved
\* ones is non-Free exactly when it is in some file's chain
TableChain == chain_from(blocks, 0, <<>>)
TableChainSet == {TableChain[j] : j \in 1..Len(TableChain)}

WellFormed ==
  /\ Len(TableChain) >= 1 /\ blocks[TableChain[Len(TableChain)]] = -1
  /\ \A f \in DOMAIN fat :
        LET c == Chain(blocks, fat, f)
        IN Len(c) >= 1 /\ blocks[c[Len(c)]] = -1
  /\ \A f \in DOMAIN fat : ChainSet(blocks, fat, f) \cap TableChainSet = {}
  /\ \A f, g \in DOMAIN fat :
        f # g => ChainSet(blocks, fat, f) \cap ChainSet(blocks, fat, g) = {}
  /\ \A i \in Idx \ Reserved :
        blocks[i] # 0 <=> \E f \in DOMAIN fat : i \in ChainSet(blocks, fat, f)

C18_FatShrink ==
  [][(IsFAT /\ call'.op = "shrink"
        /\ call'.file_id \in DOMAIN fat
        /\ call'.arg >= 1
        /\ WellFormed
        /\ chain_length(call'.file_id) - call'.arg >= 1) =>
       LET f == call'.file_id
           k == call'.arg
           old == Chain(blocks, fat, f)
           keep == Len(old) - k
       IN /\ ret'.st = "return"
          /\ \A j \in (keep + 1)..Len(old) : blocks'[old[j]] = 0
          /\ blocks'[old[keep]] = -1
          /\ Chain(blocks', fat', f) = SubSeq(old, 1, keep)
          /\ fat' = fat
          /\ capacity' = capacity + k
          /\ \A i \in Idx \ ChainSet(blocks, fat, f) : blocks'[i] = blocks[i]]_vars

\* C18 witness: a shrink by one block or more was performed on a file whose
\* chain is not contiguous in the list, beside another file, and left all
\* chains well formed with the freed blocks Free.
C18_Witness ==
  /\ IsFAT /\ call.op = "shrink" /\ ret = RetNone /\ call.arg >= 1
  /\ call.file_id \in DOMAIN fat
  /\ DOMAIN fat # {call.file_id}
  /\ WellFormed
  /\ capacity = call.arg
  /\ Cardinality({i \in Idx \ Reserved : blocks[i] = 0}) = call.arg
  /\ \E g \in DOMAIN fat : fat[g] > fat[call.file_id] /\ blocks[block_count - 1] = 0

\* C19: linked access of an existing file with byte_offset >= 1 and
\* bytesToBlocks(byte_offset) <= chain_length follows bytesToBlocks(byte_offset)
\* - 1 Next links from the head and returns the index of that block of the
\* file's chain, wherever the chain's blocks lie; it changes no state.
C19_FatAccess ==
  [][(IsFAT /\ call'.op = "access_file"
        /\ call'.file_id \in DOMAIN fat
        /\ call'.arg >= 1
        /\ chain_length(call'.file_id) # -1
        /\ FAT_byte_to_block(call'.arg) <= chain_length(call'.file_id)) =>
       LET f == call'.file_id
           nth == FAT_byte_to_block(call'.arg)
       IN /\ ret' = RetInt(Chain(blocks, fat, f)[nth])
          /\ blocks' = blocks /\ fat' = fat /\ capacity' = capacity]_vars

\* C19 witness: access returned the second block of a chain whose second
\* block does not follow the head in the list.
C19_Witness ==
  /\ IsFAT /\ call.op = "access_file" /\ call.file_id \in DOMAIN fat
  /\ call.arg >= 1
  /\ WellFormed
  /\ FAT_byte_to_block(call.arg) = 2
  /\ Len(Chain(blocks, fat, call.file_id)) >= 2
  /\ ret = RetInt(Chain(blocks, fat, call.file_id)[2])
  /\ ret.val > fat[call.file_id] + 1

\* the block list with every block of a recorded extent tagged by its file:
\* _compact tests blocks only against 0, so on a state whose records match
\* the layout it moves the tags exactly as it moves the payloads
Tagged ==
  [i \in Idx |-> IF \E f \in DOMAIN dt : i \in Extent(dt, f)
                   THEN CHOOSE f \in DOMAIN dt : i \in Extent(dt, f)
                   ELSE 0]

\* C20: when a compaction runs (and returns) on a state where every record's
\* extent is exactly the set of blocks holding that file and extents are
\* pairwise disjoint, then afterwards every record's start is the new index
\* of that file's first block, and the recorded extents are pairwise
\* disjoint, inside [0, block_count) and made only of Occupied blocks.
C20_CompactKeepsTable ==
  [][(IsDT /\ call'.op \in {"create_file", "extend"} /\ compacted' >= 1
        /\ RecordsMatch /\ ~compact(Tagged, dt).err) =>
       LET c == compact(Tagged, dt)
       IN /\ \A f \in DOMAIN c.dt :
                /\ \E i \in Idx : c.blocks[i] = f
                /\ c.dt[f].p = Min({i \in Idx : c.blocks[i] = f})
                /\ Extent(c.dt, f) \subseteq Idx
                /\ \A i \in Extent(c.dt, f) : c.blocks[i] # 0
          /\ \A f, g \in DOMAIN c.dt :
                f # g => Extent(c.dt, f) \cap Extent(c.dt, g) = {}]_vars

\* the block list with every Occupied block holding its own index + 1 as
\* payload: pairwise distinct payloads in rising order, the same Free /
\* Occupied pattern as blocks, so _compact moves them as it moves blocks
Numbered == [i \in Idx |-> IF blocks[i] # 0 THEN i + 1 ELSE 0]

\* C21: compaction is a stable left-pack: after one compaction pass (that
\* returns) no Free block has a lower index than any Occupied block, the
\* number of Occupied blocks is the same as before, and the Occupied block
\* payloads appear in the same left-to-right order as before.
C21_StableLeftPack ==
  [][(IsDT /\ call'.op \in {"create_file", "extend"} /\ compacted' >= 1
        /\ ~compact(Numbered, dt).err) =>
       LET c == compact(Numbered, dt)
       IN /\ \A i, j \in Idx : (c.blocks[i] = 0 /\ c.blocks[j] # 0) => j < i
          /\ {c.blocks[i] : i \in Idx} = {Numbered[i] : i \in Idx}
          /\ Cardinality({i \in Idx : c.blocks[i] # 0})
               = Cardinality({i \in Idx : blocks[i] # 0})
          /\ \A i, j \in Idx :
                (i < j /\ c.blocks[i] # 0 /\ c.blocks[j] # 0) => c.blocks[i] < c.blocks[j]]_vars

\* C22: linked allocator, after any sequence of public calls: for every file
\* the walk from its head goes through pairwise distinct blocks and reaches a
\* block holding the terminator, no block belongs to the chains of two files,
\* and a block behind the reserved ones is non-Free exactly when it belongs
\* to some file's chain.
C22_ChainsWellFormed ==
  IsFAT =>
    /\ \A f \in DOMAIN fat :
          LET c == Chain(blocks, fat, f)
          IN Len(c) >= 1 /\ blocks[c[Len(c)]] = -1
    /\ \A f, g \in DOMAIN fat :
          f # g => ChainSet(blocks, fat, f) \cap ChainSet(blocks, fat, g) = {}
    /\ \A i \in Idx \ Reserved :
          blocks[i] # 0 <=> \E f \in DOMAIN fat : i \in ChainSet(blocks, fat, f)

\* C23: on both allocators every call of create_file, access, extend or
\* shrink that returns the failure value leaves the block list, all file
\* records (every start pointer included) and capacity exactly as they were
\* before the call; this includes a contiguous extend that is rejected after
\* it has found the blocks behind the file occupied.
C23_RejectChangesNothing ==
  [][Rejected(ret') =>
       /\ blocks' = blocks
       /\ dt' = dt
       /\ fat' = fat
       /\ capacity' = capacity]_vars

====
